---- MODULE Spec2Model ----
(***************************************************************************)
(* Model of safing-core's binary serialization layer and process glue:     *)
(*   - the reflective BSON document encoder  (vendor/github.com/pkg/bson)  *)
(*   - the VarInt codec                      (formats/varint)              *)
(*   - main's signal driven shutdown         (main.go, clientapi.go)       *)
(*                                                                         *)
(* Numbers wider than 31 bits are kept as little-endian sequences of       *)
(* 16-bit limbs (a uint64 is 4 limbs, a uint32 2 limbs, a uint16 1 limb).  *)
(* Byte strings are sequences of 0..255.                                   *)
(***************************************************************************)
EXTENDS Integers, Sequences, FiniteSets, TLC

VARIABLES
    root,   \* encode: the value handed to encode
    bpc,    \* encode: "ready" before the call, "done" after it
    out,    \* encode: what the call produced (bson, err, panic)
    wcall,  \* writeValue: the call (buffer before, ename, value)
    wpc,    \* writeValue: "ready" / "done"
    wret,   \* writeValue: the result (bson, n, err)
    vcall,  \* varint: the call (op, argument)
    vpc,    \* varint: "ready" / "done"
    vres,   \* varint: the result
    mpc,    \* main: position of the main goroutine
    sigch,  \* main: a signal is waiting on signalCh
    gshut,  \* modules: GlobalShutdown is closed
    mods,   \* modules: state of every module goroutine
    elapsed,\* main: seconds slept since the select returned
    dumped, \* main: the goroutine stack traces were printed
    exit    \* process exit status, -1 while running

bsonVars == <<root, bpc, out>>
writeVars == <<wcall, wpc, wret>>
varintVars == <<vcall, vpc, vres>>
mainVars == <<mpc, sigch, gshut, mods, elapsed, dumped, exit>>
vars == <<root, bpc, out, wcall, wpc, wret, vcall, vpc, vres,
          mpc, sigch, gshut, mods, elapsed, dumped, exit>>

----------------------------------------------------------------------------
(* Bounds of the model *)

\* number of values (fields and elements, nested ones included) in a document
MaxNodes == 3

\* length of the hand-made buffers given to the Unpack functions
MaxRawLen == 2

----------------------------------------------------------------------------
(* Bytes and integers *)

sizeofInt32 == 4
sizeofInt64 == 8

\* byte(v >> (8*k)) of a Go int / int32 (arithmetic shift, two's complement)
ByteOf(v, k) == (v \div (256 ^ k)) % 256

\* byte(v >> (8*k)) of a 64-bit value kept as 4 limbs
ByteOf64(w, k) ==
    IF k % 2 = 0 THEN w[(k \div 2) + 1] % 256 ELSE w[(k \div 2) + 1] \div 256

\* math.Float64bits of the float (-1)^sign * (1 + frac/16) * 2^exp:
\* sign bit 63, biased exponent in bits 62..52, fraction from bit 51 down
Float64bits(f) == <<0, 0, 0, f.sign * 32768 + (f.exp + 1023) * 16 + f.frac>>

RECURSIVE Itoa(_)
\* strconv.Itoa for i >= 0: the ASCII decimal digits
Itoa(i) == IF i < 10 THEN <<48 + i>> ELSE Append(Itoa(i \div 10), 48 + (i % 10))

----------------------------------------------------------------------------
(* Errors *)

NoError == [msg |-> "nil"]
ErrRootNil(t) == [msg |-> "bson: error calling MarshalJSON: was nil", type |-> t]
ErrRootUnsupported(t) == [msg |-> "bson: error calling MarshalJSON: unsupported", type |-> t]
ErrUnsupportedType(t) == [msg |-> "bson: unsupported type", type |-> t]

----------------------------------------------------------------------------
(* The writer: every operation takes w.bson and gives the new w.bson and    *)
(* the count it returns                                                     *)

writeType(b, typ) == [bson |-> Append(b, typ), n |-> 1]

writeBool(b, t) == [bson |-> Append(b, IF t THEN 1 ELSE 0), n |-> 1]

writeBytes(b, bs) == [bson |-> b \o bs, n |-> Len(bs)]

\* a writeCstring that does not count the terminating 0x00
writeCstringUncounted(b, s) == [bson |-> Append(b \o s, 0), n |-> Len(s)]

writeCstring(b, s) == [bson |-> Append(b \o s, 0), n |-> Len(s) + 1]

writeInt32(b, v) ==
    [bson |-> b \o <<ByteOf(v, 0), ByteOf(v, 1), ByteOf(v, 2), ByteOf(v, 3)>>,
     n |-> sizeofInt32]

writeInt64(b, w) ==
    [bson |-> b \o [k \in 1..8 |-> ByteOf64(w, k - 1)], n |-> sizeofInt64]

writeFloat64(b, f) ==
    LET v == Float64bits(f)
    IN [bson |-> b \o [k \in 1..8 |-> ByteOf64(v, k - 1)], n |-> sizeofInt64]

\* the document header at off (0-based) overwritten with count, little-endian
updateHeader(b, off, count) ==
    [i \in 1..Len(b) |->
        IF i > off /\ i <= off + 4 THEN ByteOf(count, i - off - 1) ELSE b[i]]

\* a count that forgets the trailing 0x0
headerOnly == sizeofInt32

\* count := sizeofInt32 + 1, "header plus trailing 0x0"
headerPlusTrailer == sizeofInt32 + 1

\* the kinds the inner switch of writeValue has no case for
UnsupportedKinds == {"Uint8", "Ptr"}

RECURSIVE writeValue(_, _, _)
RECURSIVE writeMap(_, _)
RECURSIVE writeSlice(_, _)
RECURSIVE writeMapLoop(_, _, _, _)
RECURSIVE writeSliceLoop(_, _, _, _)

\* writeType(typ) then writeCstring(ename), the start of every case
writeTag(b, typ, ename) ==
    LET t == writeType(b, typ)
        c == writeCstring(t.bson, ename)
    IN [bson |-> c.bson, n |-> t.n + c.n]

\* for _, k := range keys { n, err := w.writeValue(k.String(), v) ... }
\* kids is the map's content in the order MapKeys() happened to give
writeMapLoop(b, kids, i, count) ==
    IF i > Len(kids) THEN [bson |-> b, n |-> count, err |-> NoError]
    ELSE LET r == writeValue(b, kids[i].name, kids[i].v)
         IN IF r.err # NoError THEN [bson |-> r.bson, n |-> 0, err |-> r.err]
            ELSE writeMapLoop(r.bson, kids, i + 1, count + r.n)

writeMap(b, v) ==
    LET off == Len(b)
        r == writeMapLoop(b \o <<0, 0, 0, 0>>, v.kids, 1, headerPlusTrailer)
    IN IF r.err # NoError THEN r
       ELSE [bson |-> updateHeader(Append(r.bson, 0), off, r.n),
             n |-> r.n, err |-> NoError]

\* a slice loop that skips the elements writeValue fails on
writeSliceLoopSkipping(b, kids, i, count) ==
    IF i > Len(kids) THEN [bson |-> b, n |-> count, err |-> NoError]
    ELSE LET r == writeValue(b, Itoa(i - 1), kids[i].v)
         IN IF r.err # NoError THEN writeSliceLoop(b, kids, i + 1, count)
            ELSE writeSliceLoop(r.bson, kids, i + 1, count + r.n)

\* for i, n := 0, v.Len(); i < n; i++ { w.writeValue(strconv.Itoa(i), v) }
writeSliceLoop(b, kids, i, count) ==
    IF i > Len(kids) THEN [bson |-> b, n |-> count, err |-> NoError]
    ELSE LET r == writeValue(b, Itoa(i - 1), kids[i].v)
         IN IF r.err # NoError THEN [bson |-> r.bson, n |-> 0, err |-> r.err]
            ELSE writeSliceLoop(r.bson, kids, i + 1, count + r.n)

writeSlice(b, v) ==
    LET off == Len(b)
        r == writeSliceLoop(b \o <<0, 0, 0, 0>>, v.kids, 1, headerPlusTrailer)
    IN IF r.err # NoError THEN r
       ELSE [bson |-> updateHeader(Append(r.bson, 0), off, r.n),
             n |-> r.n, err |-> NoError]

\* one case of writeValue with a fixed-size payload: tag, name, payload
writeCase(b, typ, ename, p) ==
    LET t == writeTag(b, typ, ename)
    IN [bson |-> t.bson \o p.bson, n |-> t.n + p.n, err |-> NoError]

writeValue(b, ename, v) ==
    CASE v.kind = "Nil" ->
           LET t == writeTag(b, 10, ename)
           IN [bson |-> t.bson, n |-> t.n, err |-> NoError]
      [] v.kind = "ObjectId" ->
           writeCase(b, 7, ename, writeBytes(<<>>, v.b))
      [] v.kind = "Datetime" ->
           writeCase(b, 9, ename, writeInt64(<<>>, v.w))
      [] v.kind = "Timestamp" ->
           writeCase(b, 17, ename, writeInt64(<<>>, v.w))
      [] v.kind = "Float64" ->
           writeCase(b, 1, ename, writeFloat64(<<>>, v.f))
      [] v.kind = "String" ->
           LET t == writeTag(b, 2, ename)
               sz == Len(v.s) + 1
               l == writeInt32(t.bson, sz)
           IN [bson |-> Append(l.bson \o v.s, 0), n |-> t.n + l.n + sz,
               err |-> NoError]
      [] v.kind = "Bool" ->
           writeCase(b, 8, ename, writeBool(<<>>, v.t))
      [] v.kind = "Int32" ->
           writeCase(b, 16, ename, writeInt32(<<>>, v.i))
      [] v.kind = "Int64" ->
           writeCase(b, 18, ename, writeInt64(<<>>, v.w))
      [] v.kind = "Slice" ->
           LET t == writeTag(b, 4, ename)
               r == writeSlice(t.bson, v)
           IN IF r.err # NoError THEN [bson |-> r.bson, n |-> 0, err |-> r.err]
              ELSE [bson |-> r.bson, n |-> t.n + r.n, err |-> NoError]
      [] v.kind = "Map" ->
           LET t == writeTag(b, 3, ename)
               r == writeMap(t.bson, v)
           IN IF r.err # NoError THEN [bson |-> r.bson, n |-> 0, err |-> r.err]
              ELSE [bson |-> r.bson, n |-> t.n + r.n, err |-> NoError]
      [] OTHER ->
           [bson |-> b, n |-> 0, err |-> ErrUnsupportedType(v.kind)]

----------------------------------------------------------------------------
(* encode *)

\* the kinds reflect.Value.IsNil accepts; it panics on every other kind,
\* the zero Value of an untyped nil ("Invalid") included
Nillable(kind) ==
    kind \in {"Chan", "Func", "Interface", "Map", "Ptr", "Slice", "UnsafePointer"}

Panicked == [bson |-> <<>>, err |-> NoError, panic |-> TRUE]

encode(v) ==
    IF ~Nillable(v.kind) THEN Panicked
    ELSE IF v.isnil
    THEN [bson |-> <<>>, err |-> ErrRootNil(v.kind), panic |-> FALSE]
    ELSE LET rv == IF v.kind = "Ptr" THEN v.elem ELSE v
         IN IF rv.kind = "Map"
            THEN LET r == writeMap(<<>>, rv)
                 IN [bson |-> r.bson, err |-> r.err, panic |-> FALSE]
            ELSE [bson |-> <<>>, err |-> ErrRootUnsupported(rv.kind),
                  panic |-> FALSE]

----------------------------------------------------------------------------
(* The values handed to the encoder.  A map is kept as the sequence of its  *)
(* fields in the order MapKeys() returns them (any order of distinct keys); *)
(* elements are held in interface{} as in map[string]interface{} and        *)
(* []interface{}.                                                           *)

Names == {<<97>>, <<98, 99>>}

Leaves ==
    { [kind |-> "Nil"],
      [kind |-> "ObjectId", b |-> <<1, 2, 3, 4, 5, 6, 7, 8, 9, 10, 11, 0>>],
      [kind |-> "Datetime", w |-> <<513, 0, 65535, 32768>>],
      [kind |-> "Timestamp", w |-> <<0, 1, 0, 0>>],
      [kind |-> "Float64", f |-> [sign |-> 0, exp |-> 0, frac |-> 8]],
      [kind |-> "String", s |-> <<104, 105>>],
      [kind |-> "Bool", t |-> TRUE],
      [kind |-> "Int32", i |-> -2],
      [kind |-> "Int64", w |-> <<65534, 65535, 65535, 65535>>] }
    \cup {[kind |-> k] : k \in UnsupportedKinds}

\* more values of the scalar kinds, for single writeValue calls
WideLeaves ==
    Leaves
    \cup {[kind |-> "Float64", f |-> [sign |-> s, exp |-> e, frac |-> m]] :
             s \in {0, 1}, e \in {-1022, 1, 1023}, m \in {0, 15}}
    \cup {[kind |-> "String", s |-> x] : x \in {<<>>, <<255, 1, 104>>}}
    \cup {[kind |-> "Bool", t |-> FALSE]}
    \cup {[kind |-> "Int32", i |-> x] :
             x \in {0, 1, 255, 256, 65536, 2147483647, -2147483647 - 1, -1}}
    \cup {[kind |-> k, w |-> <<a, 0, c, d>>] :
             k \in {"Int64", "Datetime", "Timestamp"},
             a \in {0, 258}, c \in {1, 65535}, d \in {0, 32767, 32768}}

MapOf(kids) == [kind |-> "Map", kids |-> kids]
SliceOf(kids) == [kind |-> "Slice", kids |-> kids]

\* the orders in which the keys of a map can come
NameOrders ==
    {o \in [1..Cardinality(Names) -> Names] :
        \A i, j \in 1..Cardinality(Names) : o[i] = o[j] => i = j}

\* the maps whose values, in iteration order, are one of the sequences of S
MapsOver(S) ==
    {MapOf([i \in 1..Len(s) |-> [name |-> o[i], v |-> s[i]]]) :
        o \in NameOrders, s \in {t \in S : Len(t) <= Cardinality(Names)}}

SlicesOver(S) == {SliceOf([i \in 1..Len(s) |-> [v |-> s[i]]]) : s \in S}

RECURSIVE ValsN(_)
RECURSIVE SeqsN(_)
RECURSIVE SeqsSplit(_, _)
\* the values of exactly n nodes
ValsN(n) ==
    IF n = 1 THEN Leaves \cup {MapOf(<<>>), SliceOf(<<>>)}
    ELSE SlicesOver(SeqsN(n - 1)) \cup MapsOver(SeqsN(n - 1))
\* the sequences of m nodes in all whose first value has at most k nodes
SeqsSplit(m, k) ==
    IF k = 0 THEN {}
    ELSE {<<x>> \o s : x \in ValsN(k), s \in SeqsN(m - k)} \cup SeqsSplit(m, k - 1)
\* the sequences of values of m nodes in all
SeqsN(m) == IF m = 0 THEN {<<>>} ELSE SeqsSplit(m, m)

RECURSIVE ValsUpTo(_)
\* the interface{} values of at most n nodes
ValsUpTo(n) == IF n = 0 THEN {} ELSE ValsN(n) \cup ValsUpTo(n - 1)

RECURSIVE SeqsUpTo(_)
SeqsUpTo(n) == IF n = 0 THEN {<<>>} ELSE SeqsN(n) \cup SeqsUpTo(n - 1)

\* what a caller may hand to encode(v interface{})
Roots ==
    \* a map[string]interface{} of at most MaxNodes values
    {[kind |-> "Map", isnil |-> FALSE, kids |-> m.kids] :
        m \in MapsOver(SeqsUpTo(MaxNodes))}
    \* a pointer to a map (possibly a nil map) or to something else
    \cup {[kind |-> "Ptr", isnil |-> FALSE, elem |-> e] :
             e \in {x \in ValsUpTo(2) : x.kind \in {"Map", "Slice", "Int32", "String"}}}
    \* nil pointer, nil map, nil slice
    \cup {[kind |-> k, isnil |-> TRUE, kids |-> <<>>] : k \in {"Ptr", "Map", "Slice"}}
    \* a slice
    \cup {[kind |-> "Slice", isnil |-> FALSE, kids |-> s.kids] :
             s \in {x \in ValsUpTo(2) : x.kind = "Slice"}}
    \* an untyped nil and scalars
    \cup {[kind |-> "Invalid"]}
    \cup {x \in Leaves : x.kind \in {"Int32", "String", "Float64", "Bool", "ObjectId", "Uint8"}}

----------------------------------------------------------------------------
(* VarInt codec.  Unsigned integers are little-endian sequences of 16-bit   *)
(* limbs: uint8 and uint16 one limb, uint32 two, uint64 four.               *)

E8Empty == [msg |-> "varint: buf has zero length"]
E8TooSmall == [msg |-> "varint: buf too small"]
E8Overflow == [msg |-> "varint: encoded integer greater than 255 (uint8)"]
ETooSmall == [msg |-> "Fatal Error: buf too small"]
EOverflow64 == [msg |-> "VarInt encoded integer greater than 18446744073709551615 (uint64)"]
EOverflow16 == [msg |-> "VarInt encoded integer greater than 65535 (uint16)"]
EOverflow32 == [msg |-> "VarInt encoded integer greater than 4294967295 (uint32)"]

\* uint64(n) of a narrower unsigned n
ToUint64(n) == [i \in 1..4 |-> IF i <= Len(n) THEN n[i] ELSE 0]

\* x >= 0x80
AtLeast128(x) == x[1] >= 128 \/ x[2] > 0 \/ x[3] > 0 \/ x[4] > 0

\* x >> 7
ShiftRight7(x) ==
    [i \in 1..4 |-> (x[i] \div 128) + (IF i < 4 THEN (x[i + 1] % 128) * 512 ELSE 0)]

\* uint64(v) << sh for a byte v; the bits shifted past bit 63 are lost
ShiftLeft(v, sh) ==
    LET limb == (sh \div 16) + 1
        wide == v * (2 ^ (sh % 16))
    IN [i \in 1..4 |-> IF i = limb THEN wide % 65536
                       ELSE IF i = limb + 1 THEN wide \div 65536 ELSE 0]

RECURSIVE BitOr(_, _)
\* a | b of two limbs
BitOr(a, b) ==
    IF a = 0 THEN b ELSE IF b = 0 THEN a
    ELSE (IF a % 2 = 1 \/ b % 2 = 1 THEN 1 ELSE 0) + 2 * BitOr(a \div 2, b \div 2)

\* x | y
Or64(x, y) == [i \in 1..4 |-> BitOr(x[i], y[i])]

RECURSIVE PutUvarintLoop(_, _, _, _)
\* for x >= 0x80 { buf[i] = byte(x) | 0x80; x >>= 7; i++ }; buf[i] = byte(x)
\* a write past the end of buf panics
PutUvarintLoop(bufLen, x, i, written) ==
    IF i >= bufLen THEN [bytes |-> written, w |-> 0, panic |-> TRUE]
    ELSE IF AtLeast128(x)
    THEN PutUvarintLoop(bufLen, ShiftRight7(x), i + 1,
                        Append(written, BitOr(x[1] % 256, 128)))
    ELSE [bytes |-> Append(written, x[1] % 256), w |-> i + 1, panic |-> FALSE]

\* binary.PutUvarint(buf, x): the bytes it stores and the count it returns
PutUvarint(bufLen, x) == PutUvarintLoop(bufLen, x, 0, <<>>)

RECURSIVE UvarintLoop(_, _, _, _)
\* binary.Uvarint: i is the 0-based index of the next byte.  (Releases of
\* the library differ only on buffers of more than 10 bytes that all have
\* the high bit set, which are not among the buffers explored here.)
UvarintLoop(buf, i, x, sh) ==
    IF i >= Len(buf) THEN [x |-> <<0, 0, 0, 0>>, r |-> 0]
    ELSE IF i = 10 THEN [x |-> <<0, 0, 0, 0>>, r |-> -(i + 1)]
    ELSE LET b == buf[i + 1]
         IN IF b < 128
            THEN IF i = 9 /\ b > 1 THEN [x |-> <<0, 0, 0, 0>>, r |-> -(i + 1)]
                 ELSE [x |-> Or64(x, ShiftLeft(b, sh)), r |-> i + 1]
            ELSE UvarintLoop(buf, i + 1, Or64(x, ShiftLeft(b % 128, sh)), sh + 7)

Uvarint(buf) == UvarintLoop(buf, 0, <<0, 0, 0, 0>>, 0)

PackResult(r) == [bytes |-> IF r.panic THEN <<>> ELSE SubSeq(r.bytes, 1, r.w),
                  panic |-> r.panic]

Pack8(n) ==
    IF n[1] < 128 THEN [bytes |-> <<n[1]>>, panic |-> FALSE]
    ELSE [bytes |-> <<n[1], 1>>, panic |-> FALSE]

\* a Pack16 whose buffer is one byte short of the worst case
Pack16ShortBuffer(n) == PackResult(PutUvarint(2, ToUint64(n)))

Pack16(n) == PackResult(PutUvarint(3, ToUint64(n)))

Pack32(n) == PackResult(PutUvarint(5, ToUint64(n)))

Pack64(n) == PackResult(PutUvarint(10, n))

Unpacked(val, used, err) == [val |-> val, used |-> used, err |-> err]

\* an Unpack8 that takes any second byte for the marker
Unpack8AnyMarker(blob) ==
    IF Len(blob) < 1 THEN Unpacked(<<0>>, 0, E8Empty)
    ELSE IF blob[1] < 128 THEN Unpacked(<<blob[1]>>, 1, NoError)
    ELSE IF Len(blob) < 2 THEN Unpacked(<<0>>, 0, E8TooSmall)
    ELSE Unpacked(<<blob[1]>>, 1, NoError)

Unpack8(blob) ==
    IF Len(blob) < 1 THEN Unpacked(<<0>>, 0, E8Empty)
    ELSE IF blob[1] < 128 THEN Unpacked(<<blob[1]>>, 1, NoError)
    ELSE IF Len(blob) < 2 THEN Unpacked(<<0>>, 0, E8TooSmall)
    ELSE IF blob[2] # 1 THEN Unpacked(<<0>>, 0, E8Overflow)
    ELSE Unpacked(<<blob[1]>>, 1, NoError)

Unpack16(b) ==
    LET u == Uvarint(b)
    IN IF u.r = 0 THEN Unpacked(<<0>>, 0, ETooSmall)
       ELSE IF u.r < 0 THEN Unpacked(<<0>>, 0, EOverflow64)
       ELSE IF u.x[2] > 0 \/ u.x[3] > 0 \/ u.x[4] > 0
       THEN Unpacked(<<0>>, 0, EOverflow16)
       ELSE Unpacked(<<u.x[1]>>, u.r, NoError)

\* an Unpack32 that converts without the range check
Unpack32Truncating(b) ==
    LET u == Uvarint(b)
    IN IF u.r = 0 THEN Unpacked(<<0, 0>>, 0, ETooSmall)
       ELSE IF u.r < 0 THEN Unpacked(<<0, 0>>, 0, EOverflow64)
       ELSE Unpacked(<<u.x[1], u.x[2]>>, u.r, NoError)

Unpack32(b) ==
    LET u == Uvarint(b)
    IN IF u.r = 0 THEN Unpacked(<<0, 0>>, 0, ETooSmall)
       ELSE IF u.r < 0 THEN Unpacked(<<0, 0>>, 0, EOverflow64)
       ELSE IF u.x[3] > 0 \/ u.x[4] > 0
       THEN Unpacked(<<0, 0>>, 0, EOverflow32)
       ELSE Unpacked(<<u.x[1], u.x[2]>>, u.r, NoError)

Unpack64(b) ==
    LET u == Uvarint(b)
    IN IF u.r = 0 THEN Unpacked(<<0, 0, 0, 0>>, 0, ETooSmall)
       ELSE IF u.r < 0 THEN Unpacked(<<0, 0, 0, 0>>, 0, EOverflow64)
       ELSE Unpacked(u.x, u.r, NoError)

----------------------------------------------------------------------------
(* State machines.  Each codec call is one step from "ready" to "done".     *)

NoOut == [bson |-> <<>>, err |-> NoError, panic |-> FALSE]
NoRet == [bson |-> <<>>, n |-> 0, err |-> NoError]
NoCall == [op |-> "none"]

NoVres == [packed |-> <<>>, buf |-> <<>>, panic |-> FALSE,
           val |-> <<>>, used |-> 0, err |-> NoError]

IdleEncode == root = [kind |-> "Invalid"] /\ bpc = "idle" /\ out = NoOut
IdleWrite == wcall = NoCall /\ wpc = "idle" /\ wret = NoRet
IdleVarint == vcall = NoCall /\ vpc = "idle" /\ vres = NoVres
IdleMain ==
    /\ mpc = "idle" /\ sigch = FALSE /\ gshut = FALSE /\ mods = <<>>
    /\ elapsed = 0 /\ dumped = FALSE /\ exit = -1

\* the integers and buffers the VarInt calls are made with
LimbVals == {0, 1, 127, 128, 300, 16383, 16384, 65535}
U8 == {<<n>> : n \in 0..255}
U16 == {<<a>> : a \in LimbVals \cup (120..135) \cup (16380..16390) \cup {255, 256, 32768}}
U32 == {<<a, b>> : a \in LimbVals, b \in LimbVals}
\* 5000000000 is 0x1_2A05_F200
U64 == {<<a, b, c, d>> : a \in LimbVals, b \in LimbVals, c \in LimbVals, d \in LimbVals}
       \cup {<<61952, 10757, 1, 0>>}
RawBytes == {0, 1, 2, 127, 128, 200, 255}
RECURSIVE RawBufs(_)
RawBufs(n) ==
    IF n = 0 THEN {<<>>}
    ELSE RawBufs(n - 1) \cup {Append(b, x) : b \in {c \in RawBufs(n - 1) : Len(c) = n - 1}, x \in RawBytes}

\* pw: the width packed with (0: a hand-made buffer), uw: the width unpacked
\* with, n: the integer, raw: the hand-made buffer, tail: bytes that follow
\* the packed integer in the buffer handed to Unpack
VarintCalls ==
    {[pw |-> 8, uw |-> 8, n |-> n, raw |-> <<>>, tail |-> t] : n \in U8, t \in {<<>>, <<255>>}}
    \cup {[pw |-> 16, uw |-> 16, n |-> n, raw |-> <<>>, tail |-> t] : n \in U16, t \in {<<>>, <<255>>}}
    \cup {[pw |-> 32, uw |-> 32, n |-> n, raw |-> <<>>, tail |-> t] : n \in U32, t \in {<<>>, <<255>>}}
    \cup {[pw |-> 64, uw |-> w, n |-> n, raw |-> <<>>, tail |-> <<>>] : n \in U64, w \in {16, 32, 64}}
    \cup {[pw |-> 0, uw |-> w, n |-> <<>>, raw |-> b, tail |-> <<>>] :
             b \in RawBufs(MaxRawLen), w \in {8, 16, 32, 64}}

\* buf := *PackW(n), followed in the caller's buffer by tail
Packed(r) ==
    /\ vres' = [NoVres EXCEPT !.packed = r.bytes, !.buf = r.bytes \o vcall.tail,
                              !.panic = r.panic]
    /\ vpc' = IF r.panic THEN "done" ELSE "packed"
    /\ UNCHANGED <<vcall, bsonVars, writeVars, mainVars>>

DoPack8 == vpc = "ready" /\ vcall.pw = 8 /\ Packed(Pack8(vcall.n))
DoPack16 == vpc = "ready" /\ vcall.pw = 16 /\ Packed(Pack16(vcall.n))
DoPack32 == vpc = "ready" /\ vcall.pw = 32 /\ Packed(Pack32(vcall.n))
DoPack64 == vpc = "ready" /\ vcall.pw = 64 /\ Packed(Pack64(vcall.n))

\* val, used, err := UnpackW(&buf)
UnpackedTo(r) ==
    /\ vres' = [vres EXCEPT !.val = r.val, !.used = r.used, !.err = r.err]
    /\ vpc' = "done"
    /\ UNCHANGED <<vcall, bsonVars, writeVars, mainVars>>

DoUnpack8 == vpc = "packed" /\ vcall.uw = 8 /\ UnpackedTo(Unpack8(vres.buf))
DoUnpack16 == vpc = "packed" /\ vcall.uw = 16 /\ UnpackedTo(Unpack16(vres.buf))
DoUnpack32 == vpc = "packed" /\ vcall.uw = 32 /\ UnpackedTo(Unpack32(vres.buf))
DoUnpack64 == vpc = "packed" /\ vcall.uw = 64 /\ UnpackedTo(Unpack64(vres.buf))

InitVarint ==
    /\ vcall \in VarintCalls
    /\ IF vcall.pw = 0
       THEN vpc = "packed" /\ vres = [NoVres EXCEPT !.buf = vcall.raw]
       ELSE vpc = "ready" /\ vres = NoVres
    /\ IdleEncode /\ IdleWrite /\ IdleMain

NextVarint ==
    \/ DoPack8 \/ DoPack16 \/ DoPack32 \/ DoPack64
    \/ DoUnpack8 \/ DoUnpack16 \/ DoUnpack32 \/ DoUnpack64

SpecVarint == InitVarint /\ [][NextVarint]_vars

\* out, err := encode(root)
Encode ==
    /\ bpc = "ready"
    /\ out' = encode(root)
    /\ bpc' = "done"
    /\ UNCHANGED <<root, writeVars, varintVars, mainVars>>

Init ==
    /\ root \in Roots /\ bpc = "ready" /\ out = NoOut
    /\ IdleWrite /\ IdleVarint /\ IdleMain

Next == Encode

Spec == Init /\ [][Next]_vars

\* the single calls of writeValue: on a writer that already holds bytes or
\* not, with a map key or an array index as the name
WriteCalls ==
    [b : {<<>>, <<9, 0, 200>>},
     ename : Names \cup {<<>>, Itoa(1)},
     v : ValsUpTo(MaxNodes) \cup WideLeaves]

\* n, err := w.writeValue(ename, v)
WriteValue ==
    /\ wpc = "ready"
    /\ wret' = writeValue(wcall.b, wcall.ename, wcall.v)
    /\ wpc' = "done"
    /\ UNCHANGED <<wcall, bsonVars, varintVars, mainVars>>

InitWrite ==
    /\ wcall \in WriteCalls /\ wpc = "ready" /\ wret = NoRet
    /\ IdleEncode /\ IdleVarint /\ IdleMain

NextWrite == WriteValue

SpecWrite == InitWrite /\ [][NextWrite]_vars

----------------------------------------------------------------------------
(* main: start the modules, wait for a signal or for GlobalShutdown, then   *)
(* give the shutdown 5 seconds.  The modules package (Register, the Stop    *)
(* channel, StopComplete, InitiateFullShutdown, GlobalShutdown and the       *)
(* supervisor that ends the process once the modules have stopped) is not   *)
(* part of the sources at hand; it is modelled from its description.        *)

\* time.Sleep(5 * time.Second)
SleepSeconds == 5

\* go nameserver.Start(); go firewall.Start(); go api.Start()
Modules == {"nameserver", "firewall", "api"}

Running == exit = -1

\* main up to the select: the module goroutines are started and the signal
\* channel is registered
MainStart ==
    /\ Running /\ mpc = "start"
    /\ mods' = [m \in Modules |-> "spawned"]
    /\ mpc' = "select"
    /\ UNCHANGED <<sigch, gshut, elapsed, dumped, exit>>
    /\ UNCHANGED <<bsonVars, writeVars, varintVars>>

\* Start(): modules.Register, go run(), then block on <-apiModule.Stop
ModuleRegister(m) ==
    /\ Running /\ mods[m] = "spawned"
    /\ mods' = [mods EXCEPT ![m] = "waiting"]
    /\ UNCHANGED <<mpc, sigch, gshut, elapsed, dumped, exit>>
    /\ UNCHANGED <<bsonVars, writeVars, varintVars>>

\* <-apiModule.Stop returns (the supervisor stops the modules once
\* GlobalShutdown is closed), then apiModule.StopComplete()
ModuleStopComplete(m) ==
    /\ Running /\ mods[m] = "waiting" /\ gshut
    /\ mods' = [mods EXCEPT ![m] = "stopped"]
    /\ UNCHANGED <<mpc, sigch, gshut, elapsed, dumped, exit>>
    /\ UNCHANGED <<bsonVars, writeVars, varintVars>>

\* case <-signalCh: log.Warning(...); modules.InitiateFullShutdown()
\* and on to the Sleep
MainSignal ==
    /\ Running /\ mpc = "select"
    /\ sigch' = TRUE
    /\ gshut' = TRUE
    /\ mpc' = "sleep"
    /\ UNCHANGED <<mods, elapsed, dumped, exit>>
    /\ UNCHANGED <<bsonVars, writeVars, varintVars>>

\* case <-modules.GlobalShutdown: and on to the Sleep
MainGlobalShutdown ==
    /\ Running /\ mpc = "select" /\ gshut
    /\ mpc' = "sleep"
    /\ UNCHANGED <<sigch, gshut, mods, elapsed, dumped, exit>>
    /\ UNCHANGED <<bsonVars, writeVars, varintVars>>

\* somebody else calls modules.InitiateFullShutdown
ShutdownInitiated ==
    /\ Running /\ ~gshut /\ mpc # "start"
    /\ gshut' = TRUE
    /\ UNCHANGED <<mpc, sigch, mods, elapsed, dumped, exit>>
    /\ UNCHANGED <<bsonVars, writeVars, varintVars>>

\* a second of the Sleep passes
Tick ==
    /\ Running /\ mpc = "sleep" /\ elapsed < SleepSeconds
    /\ elapsed' = elapsed + 1
    /\ UNCHANGED <<mpc, sigch, gshut, mods, dumped, exit>>
    /\ UNCHANGED <<bsonVars, writeVars, varintVars>>

\* a main that does not sleep before it dumps and exits
MainTimeoutNoSleep ==
    /\ Running /\ mpc = "sleep"
    /\ dumped' = TRUE
    /\ exit' = 1
    /\ mpc' = "exited"
    /\ UNCHANGED <<sigch, gshut, mods, elapsed>>
    /\ UNCHANGED <<bsonVars, writeVars, varintVars>>

\* the Sleep returns: print the stack traces, os.Exit(1)
MainTimeout ==
    /\ Running /\ mpc = "sleep" /\ elapsed = SleepSeconds
    /\ dumped' = TRUE
    /\ exit' = 1
    /\ mpc' = "exited"
    /\ UNCHANGED <<sigch, gshut, mods, elapsed>>
    /\ UNCHANGED <<bsonVars, writeVars, varintVars>>

\* the supervisor: every registered module has stopped, the shutdown is
\* complete and the process ends
SupervisorExit ==
    /\ Running /\ gshut
    /\ \A m \in Modules : mods[m] # "waiting"
    /\ exit' = 0
    /\ UNCHANGED <<mpc, sigch, gshut, mods, elapsed, dumped>>
    /\ UNCHANGED <<bsonVars, writeVars, varintVars>>

InitMain ==
    /\ mpc = "start" /\ sigch = FALSE /\ gshut = FALSE
    /\ mods = [m \in Modules |-> "unstarted"]
    /\ elapsed = 0 /\ dumped = FALSE /\ exit = -1
    /\ IdleEncode /\ IdleWrite /\ IdleVarint

NextMain ==
    \/ MainStart
    \/ \E m \in Modules : ModuleRegister(m)
    \/ \E m \in Modules : ModuleStopComplete(m)
    \/ MainSignal
    \/ MainGlobalShutdown
    \/ ShutdownInitiated
    \/ Tick
    \/ MainTimeout
    \/ SupervisorExit

\* the main goroutine is scheduled and its timer runs; nothing is assumed
\* of the modules or of the supervisor
SpecMain ==
    /\ InitMain /\ [][NextMain]_vars
    /\ WF_vars(MainStart) /\ WF_vars(MainGlobalShutdown)
    /\ WF_vars(Tick) /\ WF_vars(MainTimeout)

----------------------------------------------------------------------------
(* Reading an encoded document back, field by field, without trusting the   *)
(* length headers of documents: used to state what the output must be       *)

LE32At(b, p) == b[p] + 256 * b[p + 1] + 65536 * b[p + 2] + 16777216 * b[p + 3]

RECURSIVE NulAt(_, _)
\* the position of the first 0x00 at or after p, 0 when there is none
NulAt(b, p) == IF p > Len(b) THEN 0 ELSE IF b[p] = 0 THEN p ELSE NulAt(b, p + 1)

\* payload bytes of a field that is no document or array; -1 for an unknown tag
PayloadSize(tag, b, p) ==
    CASE tag \in {1, 9, 17, 18} -> 8
      [] tag = 2 -> IF p + 3 > Len(b) THEN -1 ELSE 4 + LE32At(b, p)
      [] tag = 7 -> 12
      [] tag = 8 -> 1
      [] tag = 10 -> 0
      [] tag = 16 -> 4
      [] OTHER -> -1

WalkFail == [ok |-> FALSE, end |-> 0, units |-> 0, tags |-> {}]

RECURSIVE WalkUnit(_, _)
RECURSIVE WalkFields(_, _, _, _)
\* from the tag at q to the unit's terminator: where the unit ends, how many
\* units were seen and which tags, provided every nested header is exact
WalkFields(b, q, units, tags) ==
    IF q > Len(b) THEN WalkFail
    ELSE IF b[q] = 0 THEN [ok |-> TRUE, end |-> q + 1, units |-> units, tags |-> tags]
    ELSE LET z == NulAt(b, q + 1)
         IN IF z = 0 THEN WalkFail
            ELSE IF b[q] \in {3, 4}
            THEN LET u == WalkUnit(b, z + 1)
                 IN IF ~u.ok THEN WalkFail
                    ELSE WalkFields(b, u.end, units + u.units,
                                    tags \cup u.tags \cup {b[q]})
            ELSE LET sz == PayloadSize(b[q], b, z + 1)
                 IN IF sz < 0 \/ z + sz > Len(b) THEN WalkFail
                    ELSE WalkFields(b, z + 1 + sz, units, tags \cup {b[q]})

\* the unit whose header starts at p: ok iff its header, and every header
\* nested in it, holds the exact number of bytes from header to terminator
WalkUnit(b, p) ==
    IF p + 3 > Len(b) THEN WalkFail
    ELSE LET f == WalkFields(b, p + 4, 1, {})
         IN IF f.ok /\ LE32At(b, p) = f.end - p THEN f ELSE WalkFail

Containers == {"Map", "Slice"}

RECURSIVE KindsOf(_, _)
\* the kinds of the values of kids[i..], nested ones included, in the order
\* the encoder visits them
KindsOf(kids, i) ==
    IF i > Len(kids) THEN <<>>
    ELSE <<kids[i].v.kind>>
         \o (IF kids[i].v.kind \in Containers THEN KindsOf(kids[i].v.kids, 1) ELSE <<>>)
         \o KindsOf(kids, i + 1)

RECURSIVE NamesOf(_, _, _)
\* the field names that go with KindsOf
NamesOf(kids, i, isSlice) ==
    IF i > Len(kids) THEN <<>>
    ELSE <<IF isSlice THEN Itoa(i - 1) ELSE kids[i].name>>
         \o (IF kids[i].v.kind \in Containers
             THEN NamesOf(kids[i].v.kids, 1, kids[i].v.kind = "Slice") ELSE <<>>)
         \o NamesOf(kids, i + 1, isSlice)

\* the map encode works on: the root, or what the root points to
RootIsDocument ==
    /\ Nillable(root.kind) /\ ~root.isnil
    /\ \/ root.kind = "Map"
       \/ root.kind = "Ptr" /\ root.elem.kind = "Map"
RootMap == IF root.kind = "Ptr" THEN root.elem ELSE root
RootKinds == KindsOf(RootMap.kids, 1)
RootNames == NamesOf(RootMap.kids, 1, FALSE)

Encoded == bpc = "done" /\ RootIsDocument /\ ~out.panic /\ out.err = NoError

\* C1: in the output of every successful encode, the header of the top-level
\* document and of every nested document and array, read little-endian, is
\* the exact number of bytes of that unit (header, fields, trailing 0x00), and
\* the output holds one unit per map and slice of the input.
HeaderLengthsExact ==
    Encoded =>
        LET u == WalkUnit(out.bson, 1)
        IN /\ u.ok
           /\ u.end = Len(out.bson) + 1
           /\ u.units = 1 + Cardinality({i \in 1..Len(RootKinds) : RootKinds[i] \in Containers})

\* a document holding a container in a container with a nil field was encoded
NestedUnitsEncoded ==
    /\ Encoded
    /\ Len(RootKinds) = 3
    /\ RootKinds[1] \in Containers /\ RootKinds[2] \in Containers
    /\ RootKinds[3] = "Nil"

\* C2: encode of a top-level nil, array or scalar returns the unsupported
\* root type error (the statement of the claim, which the code violates).
RootTypeRejected ==
    (bpc = "done" /\ ~RootIsDocument) =>
        /\ ~out.panic
        /\ out.err \in {ErrRootNil(root.kind), ErrRootUnsupported(root.kind)}
                        \cup (IF root.kind = "Ptr" /\ ~root.isnil
                              THEN {ErrRootUnsupported(root.elem.kind)} ELSE {})

\* C3: a failing encode hands no output bytes to the caller (the statement
\* of the claim, which the code violates).
NoPartialOutput ==
    (bpc = "done" /\ out.err # NoError) => out.bson = <<>>

\* the type-tag table of the format, and the tag the code gives to Bool
TenKinds ==
    {"Nil", "Float64", "String", "Map", "Slice", "ObjectId", "Datetime",
     "Int32", "Timestamp", "Int64"}
ElevenKinds == TenKinds \cup {"Bool"}
TagOfKind(k) ==
    CASE k = "Float64" -> 1 [] k = "String" -> 2 [] k = "Map" -> 3
      [] k = "Slice" -> 4 [] k = "ObjectId" -> 7 [] k = "Bool" -> 8
      [] k = "Datetime" -> 9 [] k = "Nil" -> 10 [] k = "Int32" -> 16
      [] k = "Timestamp" -> 17 [] k = "Int64" -> 18

\* the first value, in encoding order, whose kind is not in S; 0 if none
FirstOutside(S) ==
    LET bad == {i \in 1..Len(RootKinds) : RootKinds[i] \notin S}
    IN IF bad = {} THEN 0 ELSE CHOOSE i \in bad : \A j \in bad : i <= j

----------------------------------------------------------------------------
(* The wire format of one field, written from the type-tag table *)

\* k little-endian bytes of n >= 0
LittleEndian(n, k) == [i \in 1..k |-> (n \div (256 ^ (i - 1))) % 256]

\* the 4 little-endian bytes of a signed 32-bit integer in two's complement:
\* a negative v is the bitwise complement of -(v + 1)
Int32Bytes(v) ==
    IF v >= 0 THEN LittleEndian(v, 4)
    ELSE [i \in 1..4 |-> 255 - LittleEndian(-(v + 1), 4)[i]]

\* the 8 little-endian bytes of a 64-bit integer kept as 4 limbs
Int64Bytes(w) ==
    <<w[1] % 256, w[1] \div 256, w[2] % 256, w[2] \div 256,
      w[3] % 256, w[3] \div 256, w[4] % 256, w[4] \div 256>>

\* IEEE-754 binary64 of (-1)^sign * (1 + frac/16) * 2^exp, little-endian:
\* the last byte holds the sign and the high 7 bits of the biased exponent,
\* the one before it the low 4 bits of the exponent and the fraction's top 4
DoubleBytes(f) ==
    <<0, 0, 0, 0, 0, 0,
      ((f.exp + 1023) % 16) * 16 + f.frac,
      f.sign * 128 + ((f.exp + 1023) \div 16)>>

\* the decimal name of array index i (i < 100)
DecimalName(i) == IF i < 10 THEN <<48 + i>> ELSE <<48 + (i \div 10), 48 + (i % 10)>>

\* a document: 4-byte length of the whole unit, the fields, 0x00
Framed(body) == LittleEndian(Len(body) + 5, 4) \o body \o <<0>>

RECURSIVE WireField(_, _)
RECURSIVE WireFields(_, _, _)
\* the fields of kids[i..] one after the other
WireFields(kids, i, isArray) ==
    IF i > Len(kids) THEN <<>>
    ELSE WireField(IF isArray THEN DecimalName(i - 1) ELSE kids[i].name, kids[i].v)
         \o WireFields(kids, i + 1, isArray)
\* type tag, name, 0x00, payload
WireField(name, v) ==
    <<TagOfKind(v.kind)>> \o name \o <<0>> \o
    CASE v.kind = "Nil" -> <<>>
      [] v.kind = "Float64" -> DoubleBytes(v.f)
      [] v.kind = "String" -> LittleEndian(Len(v.s) + 1, 4) \o v.s \o <<0>>
      [] v.kind = "Map" -> Framed(WireFields(v.kids, 1, FALSE))
      [] v.kind = "Slice" -> Framed(WireFields(v.kids, 1, TRUE))
      [] v.kind = "ObjectId" -> v.b
      [] v.kind = "Int32" -> Int32Bytes(v.i)
      [] v.kind \in {"Datetime", "Timestamp", "Int64"} -> Int64Bytes(v.w)

\* the kinds of v and of everything in it
AllKinds(v) ==
    {v.kind} \cup (IF v.kind \in Containers
                   THEN {KindsOf(v.kids, 1)[i] : i \in 1..Len(KindsOf(v.kids, 1))}
                   ELSE {})

\* what the call appended to w.bson
Appended == SubSeq(wret.bson, Len(wcall.b) + 1, Len(wret.bson))

\* C4: every field writeValue encodes is appended as type tag, name, 0x00 and
\* payload; for the kinds of the type-tag table the bytes are exactly those
\* of the table (arrays framed as documents named "0", "1", ...; nil as tag
\* 0x0A and the name alone); the count returned is the number of bytes
\* appended, and the bytes written before are untouched.
FieldBytesExact ==
    (wpc = "done" /\ wret.err = NoError) =>
        /\ wret.n = Len(wret.bson) - Len(wcall.b)
        /\ SubSeq(wret.bson, 1, Len(wcall.b)) = wcall.b
        /\ SubSeq(Appended, 2, Len(wcall.ename) + 2) = wcall.ename \o <<0>>
        /\ AllKinds(wcall.v) \subseteq TenKinds =>
               Appended = WireField(wcall.ename, wcall.v)

\* an array holding a nil and a nested document was written after other bytes
ArrayFieldWritten ==
    /\ wpc = "done" /\ wret.err = NoError
    /\ wcall.b # <<>>
    /\ wcall.v.kind = "Slice" /\ Len(wcall.v.kids) = 2
    /\ wcall.v.kids[1].v.kind = "Nil"
    /\ wcall.v.kids[2].v.kind = "Map"
    /\ wret.n = 1 + Len(wcall.ename) + 1 + 4 + 3 + 8 + 1

----------------------------------------------------------------------------
(* VarInt claims *)

\* bit j of a uint64
BitOfValue(x, j) == IF j >= 64 THEN 0 ELSE (x[(j \div 16) + 1] \div (2 ^ (j % 16))) % 2

\* bit j of the integer that the 7-bit groups of bytes[1..len] spell,
\* least significant group first
BitOfGroups(bytes, len, j) ==
    IF j \div 7 >= len THEN 0
    ELSE ((bytes[(j \div 7) + 1] % 128) \div (2 ^ (j % 7))) % 2

\* bytes is a base-128 encoding of x: high bit on every byte but the last,
\* and the groups spell x
IsBase128Of(bytes, x) ==
    /\ Len(bytes) >= 1
    /\ \A i \in 1..(Len(bytes) - 1) : bytes[i] >= 128
    /\ bytes[Len(bytes)] < 128
    /\ \A j \in 0..(7 * Len(bytes) + 63) : BitOfGroups(bytes, Len(bytes), j) = BitOfValue(x, j)

MaxLenOf(w) == CASE w = 16 -> 3 [] w = 32 -> 5 [] w = 64 -> 10

\* C6 as stated: Unpack8(Pack8(n)) gives n, the length of Pack8(n) as the
\* bytes used, and no error.
RoundTrip8 ==
    (vpc = "done" /\ vcall.pw = 8 /\ vcall.uw = 8) =>
        /\ vres.val = vcall.n
        /\ vres.used = Len(vres.packed)
        /\ vres.err = NoError

\* C7: Unpack8 gives (0, 0, empty-buffer error) on an empty buffer,
\* (0, 0, truncated error) on one byte >= 128, (0, 0, invalid-uint8 error)
\* when the first byte is >= 128 and the second is not 0x01, and the first
\* byte with 1 byte used whenever that byte is < 128.
Unpack8Rejects ==
    (vpc = "done" /\ vcall.uw = 8) =>
        LET b == vres.buf
            r == [val |-> vres.val, used |-> vres.used, err |-> vres.err]
        IN /\ Len(b) = 0 => r = [val |-> <<0>>, used |-> 0, err |-> E8Empty]
           /\ (Len(b) >= 1 /\ b[1] < 128) =>
                  r = [val |-> <<b[1]>>, used |-> 1, err |-> NoError]
           /\ (Len(b) = 1 /\ b[1] >= 128) =>
                  r = [val |-> <<0>>, used |-> 0, err |-> E8TooSmall]
           /\ (Len(b) >= 2 /\ b[1] >= 128 /\ b[2] # 1) =>
                  r = [val |-> <<0>>, used |-> 0, err |-> E8Overflow]

\* Unpack8 refused a two-byte buffer whose second byte is not the marker
Unpack8BadMarker ==
    /\ vpc = "done" /\ vcall.uw = 8
    /\ vres.buf = <<200, 0>>
    /\ vres.err = E8Overflow

\* C8: for W in 16, 32, 64, PackW(n) is the minimal base-128 encoding of n
\* (7 bits per byte, least significant group first, high bit on all but the
\* last byte, no trailing zero group) of at most 3, 5, 10 bytes, and
\* UnpackW of it gives n, its length and no error, whatever follows it.
RoundTripWide ==
    (vpc \in {"packed", "done"} /\ vcall.pw \in {16, 32, 64}) =>
        /\ ~vres.panic
        /\ IsBase128Of(vres.packed, ToUint64(vcall.n))
        /\ Len(vres.packed) = 1 \/ vres.packed[Len(vres.packed)] # 0
        /\ Len(vres.packed) <= MaxLenOf(vcall.pw)
        /\ (vpc = "done" /\ vcall.uw = vcall.pw) =>
               /\ vres.val = vcall.n
               /\ vres.used = Len(vres.packed)
               /\ vres.err = NoError

\* Pack16(300) gave [0xAC, 0x02] and Unpack16 gave (300, 2, nil) back
RoundTrip300 ==
    /\ vpc = "done" /\ vcall.pw = 16 /\ vcall.uw = 16
    /\ vcall.n = <<300>> /\ vcall.tail # <<>>
    /\ vres.packed = <<172, 2>>
    /\ vres.val = <<300>> /\ vres.used = 2 /\ vres.err = NoError

\* the length of the well-formed uint64 varint buf starts with, 0 if none:
\* the first byte below 128 is among the first 10, and is at most 1 when
\* it is the 10th
WellFormedLen(buf) ==
    LET ends == {i \in 1..Len(buf) : buf[i] < 128}
    IN IF ends = {} THEN 0
       ELSE LET l == CHOOSE i \in ends : \A k \in ends : i <= k
            IN IF l > 10 \/ (l = 10 /\ buf[l] > 1) THEN 0 ELSE l

\* the uint64 the groups of buf[1..len] spell
GroupsValue(buf, len) ==
    [i \in 1..4 |->
        LET bit(k) == BitOfGroups(buf, len, 16 * (i - 1) + k)
        IN bit(0) + 2 * bit(1) + 4 * bit(2) + 8 * bit(3) + 16 * bit(4)
           + 32 * bit(5) + 64 * bit(6) + 128 * bit(7) + 256 * bit(8)
           + 512 * bit(9) + 1024 * bit(10) + 2048 * bit(11) + 4096 * bit(12)
           + 8192 * bit(13) + 16384 * bit(14) + 32768 * bit(15)]

\* C9: on a well-formed uint64 varint of value v, Unpack16 fails with the
\* 16-bit overflow error exactly when v > 65535 and Unpack32 with the 32-bit
\* overflow error exactly when v > 4294967295; a failure returns 0 and 0
\* bytes used, a success returns v itself and the bytes used.
OverflowRejected ==
    (vpc = "done" /\ vcall.uw \in {16, 32} /\ WellFormedLen(vres.buf) > 0) =>
        LET len == WellFormedLen(vres.buf)
            v == GroupsValue(vres.buf, len)
            limbs == vcall.uw \div 16
            over == \E i \in (limbs + 1)..4 : v[i] > 0
            eover == IF vcall.uw = 16 THEN EOverflow16 ELSE EOverflow32
        IN /\ (vcall.pw # 0) => v = ToUint64(vcall.n)
           /\ over <=> vres.err = eover
           /\ over => vres.val = [i \in 1..limbs |-> 0] /\ vres.used = 0
           /\ ~over => /\ vres.err = NoError
                       /\ ToUint64(vres.val) = v
                       /\ vres.used = len

\* Unpack32 refused 5000000000
Overflow32Seen ==
    /\ vpc = "done" /\ vcall.pw = 64 /\ vcall.uw = 32
    /\ vcall.n = <<61952, 10757, 1, 0>>
    /\ vres.err = EOverflow32 /\ vres.used = 0 /\ vres.val = <<0, 0>>

----------------------------------------------------------------------------
(* Shutdown *)

ShutdownTriggered == sigch \/ gshut

====
